---- MODULE Spec2Model ----
(***************************************************************************)
(* KnowIT quiz runner: the CSV loader (quiz.rs, Quiz::load_from_csv), the  *)
(* session operations of Quiz (quiz.rs) and the restart orchestration of   *)
(* QuizApp (app.rs).                                                       *)
(*                                                                         *)
(* A string is a tuple of one-character strings, so that trimming,         *)
(* lower-casing and number parsing are computed and not assumed.           *)
(* Option<T> is a tuple of length 0 (None) or 1 (Some(x)).                 *)
(* Indices of the program are 0-based (usize); TLA+ sequences are 1-based, *)
(* so questions[i] of the program is questions[i + 1] here.                *)
(***************************************************************************)
EXTENDS Integers, Sequences, FiniteSets, TLC

VARIABLES
    file,             \* contents of the file at the selected path
    pc,               \* "call" before Quiz::load_from_csv has run, "ready" after
    loaded,           \* what load_from_csv returned (a LoadResult)
    state,            \* QuizApp.state (AppState)
    quiz,             \* QuizApp.quiz : Option<Quiz>
    start_time,       \* QuizApp.ui.start_time : Option<Instant>
    paused_duration,  \* QuizApp.ui.paused_duration, in ticks
    ret,              \* the last session operation called and what it returned
    last_submitted,   \* per position: the last answer submitted to that question
    review_index,     \* QuizApp.review_index : Option<usize>
    current_file,     \* QuizApp.current_file : Option<PathBuf>
    file_history,     \* QuizApp.config.file_history : Vec<(String, i64)>
    show_settings,    \* QuizApp.ui.show_settings
    allow_going_back, \* QuizApp.ui.allow_going_back
    shuffle_questions, \* QuizApp.ui.shuffle_questions
    timer_paused,     \* QuizApp.ui.timer_paused
    current_answer,   \* QuizApp.ui.current_answer
    now,              \* the clock, in ticks
    paused_total      \* ticks the clock made while the timer was paused, since start_time

appVars == <<review_index, current_file, file_history>>
uiVars == <<show_settings, allow_going_back, shuffle_questions, timer_paused, current_answer>>
clockVars == <<now, paused_total>>

vars == <<file, pc, loaded, state, quiz, start_time, paused_duration, ret, last_submitted,
          appVars, uiVars, clockVars>>

----------------------------------------------------------------------------
(* Bounds of the model *)

\* data rows of a file, not counting its first row
MaxRows == 2
\* fields of a row
MaxFields == 4
\* questions of a session that the session operations are applied to
MaxQuestions == 2

----------------------------------------------------------------------------
(* Option *)

None == <<>>
Some(x) == <<x>>
IsSome(o) == Len(o) = 1
Unwrap(o) == o[1]

Range(s) == {s[i] : i \in DOMAIN s}

----------------------------------------------------------------------------
(* Strings *)

Str(c) == <<c>>

IsWhitespace(c) == c = " "

\* str::trim : drops leading and trailing whitespace
RECURSIVE TrimStart(_)
TrimStart(s) ==
    IF s # <<>> /\ IsWhitespace(Head(s)) THEN TrimStart(Tail(s)) ELSE s

RECURSIVE TrimEnd(_)
TrimEnd(s) ==
    IF s # <<>> /\ IsWhitespace(s[Len(s)])
    THEN TrimEnd(SubSeq(s, 1, Len(s) - 1))
    ELSE s

Trim(s) == TrimEnd(TrimStart(s))

LowerChar(c) ==
    CASE c = "A" -> "a"
      [] c = "B" -> "b"
      [] OTHER -> c

\* str::to_lowercase
ToLowercase(s) == [i \in DOMAIN s |-> LowerChar(s[i])]

IsDigit(c) == c \in {"0", "1", "2", "3", "4", "5", "6", "7", "8", "9"}

DigitValue(c) ==
    CASE c = "0" -> 0 [] c = "1" -> 1 [] c = "2" -> 2 [] c = "3" -> 3
      [] c = "4" -> 4 [] c = "5" -> 5 [] c = "6" -> 6 [] c = "7" -> 7
      [] c = "8" -> 8 [] c = "9" -> 9

RECURSIVE DigitsValue(_, _)
DigitsValue(s, acc) ==
    IF s = <<>> THEN acc ELSE DigitsValue(Tail(s), acc * 10 + DigitValue(Head(s)))

\* str::parse::<u32> : an optional "+", then one or more decimal digits.
\* The strings of the model are too short to exceed u32::MAX.
ParseU32(s) ==
    LET digits == IF s # <<>> /\ Head(s) = "+" THEN Tail(s) ELSE s
    IN  IF digits # <<>> /\ \A i \in DOMAIN digits : IsDigit(digits[i])
        THEN Some(DigitsValue(digits, 0))
        ELSE None

----------------------------------------------------------------------------
(* The file: a table of rows of fields.  A row the CSV reader cannot       *)
(* decode (invalid UTF-8) has utf8 = FALSE.  The CSV reader never yields a *)
(* row without fields (it skips empty lines).                              *)

NumberFields == {<<" ", "7">>, Str("x")}
TextFields == {Str("q")}
AnswerFields == {<<" ", "A">>}
OptionFields == {Str("A"), Str("b")}
AllFields == NumberFields \cup TextFields \cup AnswerFields \cup OptionFields

FieldsOfLen(k) ==
    {r \in [1..k -> AllFields] :
        \A j \in 1..k :
            CASE j = 1 -> r[j] \in NumberFields
              [] j = 2 -> r[j] \in TextFields
              [] j = 3 -> r[j] \in AnswerFields
              [] OTHER -> r[j] \in OptionFields}

Row(fields) == [utf8 |-> TRUE, fields |-> fields]
BadRow == [utf8 |-> FALSE, fields |-> <<Str("x")>>]

Rows == {Row(f) : f \in UNION {FieldsOfLen(k) : k \in 1..MaxFields}} \cup {BadRow}

TablesOfLen(n, rows) == [1..n -> rows]

File(rows) == [exists |-> TRUE, rows |-> rows]
NoFile == [exists |-> FALSE, rows |-> <<>>]

\* every table of at most MaxRows + 1 rows, and the unreadable file
Files == {File(t) : t \in UNION {TablesOfLen(n, Rows) : n \in 0..(MaxRows + 1)}} \cup {NoFile}

----------------------------------------------------------------------------
(* Quiz::load_from_csv *)

\* ReaderBuilder::new() leaves has_headers at its default, true: the reader
\* takes the first row of the file as the header and records() does not
\* yield it.
HasHeaders == TRUE

\* reader.records() with Trim::All: the rows after the header, fields trimmed
CsvRecords(f) ==
    LET rows == IF HasHeaders /\ f.rows # <<>> THEN Tail(f.rows) ELSE f.rows
    IN  [i \in DOMAIN rows |->
            [rows[i] EXCEPT !.fields = [j \in DOMAIN @ |-> Trim(@[j])]]]

\* The errors of load_from_csv are messages; kind names the message, row and
\* field_count are the numbers it is formatted with (0 where it has none).
LoadError(kind, row, field_count) ==
    [kind |-> kind, row |-> row, field_count |-> field_count]

Question(number, text, correct_answer, options) ==
    [number |-> number, text |-> text, correct_answer |-> correct_answer,
     options |-> options, user_answer |-> None]

\* BuildOptions dropping the extra fields that repeat the correct answer
BuildOptions_Dedup(fields, correct_answer) ==
    IF Len(fields) > 3
    THEN <<correct_answer>> \o
         SelectSeq([j \in 1..(Len(fields) - 3) |-> Trim(fields[j + 3])],
                   LAMBDA x : x # correct_answer)
    ELSE <<>>

\* options.push(correct_answer); options.extend(record.iter().skip(3)...)
BuildOptions(fields, correct_answer) ==
    IF Len(fields) > 3
    THEN <<correct_answer>> \o [j \in 1..(Len(fields) - 3) |-> Trim(fields[j + 3])]
    ELSE <<>>

\* The body of the loop for the record at index i of records() (0-based).
ParseRecord(record, i) ==
    LET fields == record.fields
        number == ParseU32(Trim(fields[1]))
        text == Trim(fields[2])
        correct_answer == Trim(fields[3])
    IN  IF ~record.utf8
        THEN [err |-> Some(LoadError("IoOrFormatError", i + 1, 0)), question |-> None]
        ELSE IF Len(fields) < 3
        THEN [err |-> Some(LoadError("MalformedRow", i + 1, Len(fields))), question |-> None]
        ELSE IF number = None
        THEN [err |-> Some(LoadError("InvalidQuestionNumber", i + 1, 0)), question |-> None]
        ELSE [err |-> None,
              question |-> Some(Question(Unwrap(number), text, correct_answer,
                                         BuildOptions(fields, correct_answer)))]

\* The loop over records(): stops at the first record that fails.
RECURSIVE LoadRecords(_, _, _)
LoadRecords(records, i, acc) ==
    IF i >= Len(records)
    THEN acc
    ELSE LET r == ParseRecord(records[i + 1], i)
         IN  IF IsSome(r.err)
             THEN [acc EXCEPT !.err = r.err]
             ELSE LET q == Unwrap(r.question)
                  IN  LoadRecords(records, i + 1,
                        [err |-> None,
                         questions |-> Append(acc.questions, q),
                         has_short_answer |-> acc.has_short_answer \/ q.options = <<>>,
                         has_multiple_choice |-> acc.has_multiple_choice \/ q.options # <<>>])

\* QuestionTypeOf taking any multiple-choice row for a multiple-choice set
QuestionTypeOf_McWins(has_short_answer, has_multiple_choice) ==
    IF has_multiple_choice THEN "MultipleChoice"
    ELSE IF has_short_answer THEN "ShortAnswer"
    ELSE "Mixed"

QuestionTypeOf(has_short_answer, has_multiple_choice) ==
    IF has_short_answer /\ ~has_multiple_choice THEN "ShortAnswer"
    ELSE IF ~has_short_answer /\ has_multiple_choice THEN "MultipleChoice"
    ELSE "Mixed"

Quiz(questions, question_type) ==
    [questions |-> questions, question_type |-> question_type,
     current_index |-> 0, shuffled |-> FALSE]

LoadErr(e) == [ok |-> FALSE, err |-> Some(e), quiz |-> None]
LoadOk(q) == [ok |-> TRUE, err |-> None, quiz |-> Some(q)]
NotLoaded == [ok |-> FALSE, err |-> None, quiz |-> None]

LoadFromCsv(f) ==
    IF ~f.exists
    THEN LoadErr(LoadError("IoOrFormatError", 0, 0))
    ELSE LET r == LoadRecords(CsvRecords(f), 0,
                    [err |-> None, questions |-> <<>>,
                     has_short_answer |-> FALSE, has_multiple_choice |-> FALSE])
         IN  IF IsSome(r.err) THEN LoadErr(Unwrap(r.err))
             ELSE IF r.questions = <<>> THEN LoadErr(LoadError("EmptyQuizFile", 0, 0))
             ELSE LoadOk(Quiz(r.questions,
                              QuestionTypeOf(r.has_short_answer, r.has_multiple_choice)))

----------------------------------------------------------------------------
(* QuizApp::load_quiz, called with the path of the file *)

NoCall == [op |-> "none", value |-> None]

LoadQuiz ==
    /\ pc = "call"
    /\ LET r == LoadFromCsv(file)
       IN  /\ loaded' = r
           /\ IF r.ok
              THEN quiz' = r.quiz /\ state' = "QuizSummary"
              ELSE UNCHANGED <<quiz, state>>
           /\ last_submitted' = IF r.ok THEN [i \in DOMAIN Unwrap(r.quiz).questions |-> None]
                                        ELSE <<>>
    /\ pc' = "ready"
    /\ UNCHANGED <<file, start_time, paused_duration, ret, appVars, uiVars, clockVars>>

\* QuizUI::default(), UserConfig::default() and the fields QuizApp::new sets
\* to None; no operation called yet, the clock at 0.
InitFields ==
    /\ start_time = None
    /\ paused_duration = 0
    /\ ret = NoCall
    /\ last_submitted = <<>>
    /\ review_index = None
    /\ current_file = None
    /\ file_history = <<>>
    /\ show_settings = FALSE
    /\ allow_going_back = TRUE
    /\ shuffle_questions = FALSE
    /\ timer_paused = FALSE
    /\ current_answer = <<>>
    /\ now = 0
    /\ paused_total = 0

\* The application on the file selection screen, no file selected yet.
InitApp ==
    /\ pc = "call"
    /\ loaded = NotLoaded
    /\ state = "FileSelection"
    /\ quiz = None
    /\ InitFields

InitLoad == file \in Files /\ InitApp

NextLoad == LoadQuiz

SpecLoad == InitLoad /\ [][NextLoad]_vars

----------------------------------------------------------------------------
(* Quiz: the session operations.  Each operator takes the Quiz and gives   *)
(* the Quiz after the call and the value the call returns.                 *)

\* Stands for usize::MAX, the value of 0usize - 1 in a build without
\* overflow checks (the model checker's integers stop at 2^31 - 1).
UsizeMax == 2147483647

\* self.questions.len() - 1 is below 0
LenMinusOneOverflows(q) == Len(q.questions) = 0

\* self.questions.len() - 1
LenMinusOne(q) == IF Len(q.questions) > 0 THEN Len(q.questions) - 1 ELSE UsizeMax

\* NextQuestion comparing with <= : it advances past the last question
NextQuestion_PastEnd(q) ==
    IF q.current_index <= LenMinusOne(q)
    THEN [quiz |-> [q EXCEPT !.current_index = @ + 1], value |-> TRUE]
    ELSE [quiz |-> q, value |-> FALSE]

NextQuestion(q) ==
    IF q.current_index < LenMinusOne(q)
    THEN [quiz |-> [q EXCEPT !.current_index = @ + 1], value |-> TRUE]
    ELSE [quiz |-> q, value |-> FALSE]

\* PreviousQuestion wrapping from the first question to the last
PreviousQuestion_Wrap(q) ==
    IF q.current_index > 0
    THEN [quiz |-> [q EXCEPT !.current_index = @ - 1], value |-> TRUE]
    ELSE [quiz |-> [q EXCEPT !.current_index = LenMinusOne(q)], value |-> TRUE]

PreviousQuestion(q) ==
    IF q.current_index > 0
    THEN [quiz |-> [q EXCEPT !.current_index = @ - 1], value |-> TRUE]
    ELSE [quiz |-> q, value |-> FALSE]

\* SubmitAnswer keeping an answer the question already has
SubmitAnswer_KeepFirst(q, answer) ==
    IF q.current_index < Len(q.questions)
       /\ ~IsSome(q.questions[q.current_index + 1].user_answer)
    THEN [q EXCEPT !.questions[q.current_index + 1].user_answer = Some(answer)]
    ELSE q

\* self.questions.get_mut(self.current_index) is None past the end
SubmitAnswer(q, answer) ==
    IF q.current_index < Len(q.questions)
    THEN [q EXCEPT !.questions[q.current_index + 1].user_answer = Some(answer)]
    ELSE q

\* self.questions.get(self.current_index)
CurrentQuestion(q) ==
    IF q.current_index < Len(q.questions)
    THEN Some(q.questions[q.current_index + 1])
    ELSE None

\* The loop of get_results over questions i.., 0-based, with the tallies so far.
RECURSIVE ResultsFrom(_, _, _, _)
ResultsFrom(questions, i, correct, incorrect) ==
    IF i >= Len(questions)
    THEN <<Len(questions), correct, incorrect>>
    ELSE LET question == questions[i + 1]
         IN  IF IsSome(question.user_answer)
             THEN IF ToLowercase(Trim(Unwrap(question.user_answer)))
                     = ToLowercase(Trim(question.correct_answer))
                  THEN ResultsFrom(questions, i + 1, correct + 1, incorrect)
                  ELSE ResultsFrom(questions, i + 1, correct, Append(incorrect, i))
             ELSE ResultsFrom(questions, i + 1, correct, incorrect)

\* GetResults comparing the answers as written, without trim and to_lowercase
RECURSIVE ResultsFrom_Exact(_, _, _, _)
ResultsFrom_Exact(questions, i, correct, incorrect) ==
    IF i >= Len(questions)
    THEN <<Len(questions), correct, incorrect>>
    ELSE LET question == questions[i + 1]
         IN  IF IsSome(question.user_answer)
             THEN IF Unwrap(question.user_answer) = question.correct_answer
                  THEN ResultsFrom_Exact(questions, i + 1, correct + 1, incorrect)
                  ELSE ResultsFrom_Exact(questions, i + 1, correct, Append(incorrect, i))
             ELSE ResultsFrom_Exact(questions, i + 1, correct, incorrect)

GetResults_Exact(q) == ResultsFrom_Exact(q.questions, 0, 0, <<>>)

\* (total, correct, incorrect)
GetResults(q) == ResultsFrom(q.questions, 0, 0, <<>>)

\* slice::shuffle can leave the slice in any order
IndexPerms(n) == {p \in [1..n -> 1..n] : \A i, j \in 1..n : p[i] = p[j] => i = j}

Permute(seq, p) == [i \in 1..Len(seq) |-> seq[p[i]]]

\* OptionOrders shuffling only the options after the first, which it loses
OptionOrders_DropCorrect(question) ==
    IF question.options # <<>>
    THEN {Permute(Tail(question.options), p) : p \in IndexPerms(Len(question.options) - 1)}
    ELSE {<<>>}

\* the orders question.options.shuffle can leave; an empty list is not shuffled
OptionOrders(question) ==
    IF question.options # <<>>
    THEN {Permute(question.options, p) : p \in IndexPerms(Len(question.options))}
    ELSE {<<>>}

\* Shuffle moving the questions and leaving each answer at its position
Shuffle_AnswersStay(q, p, orders) ==
    [q EXCEPT !.questions = [i \in 1..Len(q.questions) |->
                                [q.questions[p[i]] EXCEPT
                                    !.options = orders[i],
                                    !.user_answer = q.questions[i].user_answer]],
              !.shuffled = TRUE]

\* Quiz::shuffle with the order p the questions end in (position i takes
\* the question that was at p[i]) and the order orders[i] of its options.
Shuffle(q, p, orders) ==
    [q EXCEPT !.questions = [i \in 1..Len(q.questions) |->
                                [q.questions[p[i]] EXCEPT !.options = orders[i]]],
              !.shuffled = TRUE]

\* the option orders the rng can give once the questions are in order p
OrdersFor(q, p) ==
    LET n == Len(q.questions)
        all == UNION {OptionOrders(q.questions[i]) : i \in 1..n}
    IN  {o \in [1..n -> all] : \A i \in 1..n : o[i] \in OptionOrders(q.questions[p[i]])}

\* the loop of restart_quiz: question.user_answer = None
ResetAnswers(questions) ==
    [i \in 1..Len(questions) |-> [questions[i] EXCEPT !.user_answer = None]]

\* ResetQuiz without the loop that clears the answers
ResetQuiz_KeepAnswers(q) == [q EXCEPT !.current_index = 0]

\* ResetQuiz without current_index = 0
ResetQuiz_KeepIndex(q) == [q EXCEPT !.questions = ResetAnswers(q.questions)]

\* what restart_quiz does to the quiz once the optional shuffle is done
ResetQuiz(q) ==
    [q EXCEPT !.current_index = 0, !.questions = ResetAnswers(q.questions)]

\* the Question the loop body builds from a row it accepts
QuestionOfRow(row) ==
    Unwrap(ParseRecord([row EXCEPT !.fields = [j \in DOMAIN @ |-> Trim(@[j])]], 0).question)

----------------------------------------------------------------------------
(* Calls of the session operations on the loaded session *)

\* answers a caller submits
UserAnswers == {<<" ", "a", " ">>, Str("b")}

Call(op, value) == [op |-> op, value |-> Some(value)]

HasSession == pc = "ready" /\ IsSome(quiz)

\* A call that panicked returned nothing and ended the program.
Panic(op) == [op |-> op, value |-> None]

\* self.questions.len() - 1 overflows on an empty list: a build with overflow
\* checks panics there, a build without them goes on with usize::MAX.
CallNextQuestion ==
    /\ HasSession
    /\ \E overflow_checks \in BOOLEAN :
         IF overflow_checks /\ LenMinusOneOverflows(Unwrap(quiz))
         THEN /\ pc' = "panicked"
              /\ ret' = Panic("next_question")
              /\ UNCHANGED quiz
         ELSE LET r == NextQuestion(Unwrap(quiz))
              IN  /\ quiz' = Some(r.quiz)
                  /\ ret' = Call("next_question", r.value)
                  /\ UNCHANGED pc
    /\ UNCHANGED <<file, loaded, state, start_time, paused_duration, last_submitted>>
    /\ UNCHANGED <<appVars, uiVars, clockVars>>

CallPreviousQuestion ==
    /\ HasSession
    /\ LET r == PreviousQuestion(Unwrap(quiz))
       IN  quiz' = Some(r.quiz) /\ ret' = Call("previous_question", r.value)
    /\ UNCHANGED <<file, pc, loaded, state, start_time, paused_duration, last_submitted>>
    /\ UNCHANGED <<appVars, uiVars, clockVars>>

CallSubmitAnswer ==
    /\ HasSession
    /\ \E answer \in UserAnswers :
        /\ quiz' = Some(SubmitAnswer(Unwrap(quiz), answer))
        /\ ret' = Call("submit_answer", answer)
        /\ last_submitted' =
             [last_submitted EXCEPT ![Unwrap(quiz).current_index + 1] = Some(answer)]
    /\ UNCHANGED <<file, pc, loaded, state, start_time, paused_duration>>
    /\ UNCHANGED <<appVars, uiVars, clockVars>>

CallCurrentQuestion ==
    /\ HasSession
    /\ ret' = Call("current_question", CurrentQuestion(Unwrap(quiz)))
    /\ UNCHANGED <<file, pc, loaded, state, quiz, start_time, paused_duration, last_submitted>>
    /\ UNCHANGED <<appVars, uiVars, clockVars>>

CallGetResults ==
    /\ HasSession
    /\ ret' = Call("get_results", GetResults(Unwrap(quiz)))
    /\ UNCHANGED <<file, pc, loaded, state, quiz, start_time, paused_duration, last_submitted>>
    /\ UNCHANGED <<appVars, uiVars, clockVars>>

CallShuffle ==
    /\ HasSession
    /\ LET q == Unwrap(quiz)
       IN  \E p \in IndexPerms(Len(q.questions)) :
           \E orders \in OrdersFor(q, p) :
               /\ quiz' = Some(Shuffle(q, p, orders))
               /\ last_submitted' = Permute(last_submitted, p)
    /\ ret' = Call("shuffle", TRUE)
    /\ UNCHANGED <<file, pc, loaded, state, start_time, paused_duration>>
    /\ UNCHANGED <<appVars, uiVars, clockVars>>

\* QuizApp::restart_quiz(shuffle)
RestartQuiz(shuffle) ==
    /\ IsSome(quiz)
    /\ LET q == Unwrap(quiz)
       IN  IF shuffle
           THEN \E p \in IndexPerms(Len(q.questions)) :
                \E orders \in OrdersFor(q, p) :
                    quiz' = Some(ResetQuiz(Shuffle(q, p, orders)))
           ELSE quiz' = Some(ResetQuiz(q))
    /\ state' = "QuizSummary"
    /\ start_time' = None
    /\ paused_duration' = 0

CallRestartQuiz ==
    /\ HasSession
    /\ \E shuffle \in BOOLEAN :
        /\ RestartQuiz(shuffle)
        /\ ret' = Call("restart_quiz", shuffle)
    /\ last_submitted' = [i \in DOMAIN last_submitted |-> None]
    /\ UNCHANGED <<file, pc, loaded, appVars, uiVars, clockVars>>

----------------------------------------------------------------------------
(* The session operations applied in any order to a loaded session *)

HeaderRow == Row(<<Str("n"), Str("q"), Str("a")>>)

SessionRows ==
    {Row(<<Str("1"), Str("q"), <<" ", "A">>>>),
     Row(<<<<" ", "2">>, Str("q"), Str("b"), Str("A")>>)}

SessionFiles ==
    {File(<<HeaderRow>> \o t) :
        t \in UNION {TablesOfLen(n, SessionRows) : n \in 1..MaxQuestions}}

InitSession == file \in SessionFiles /\ InitApp

NextSession ==
    \/ LoadQuiz
    \/ CallNextQuestion
    \/ CallPreviousQuestion
    \/ CallSubmitAnswer
    \/ CallGetResults
    \/ CallShuffle
    \/ CallRestartQuiz

SpecSession == InitSession /\ [][NextSession]_vars

\* the operations that record answers, reorder the questions and restart
NextAnswered ==
    \/ LoadQuiz
    \/ CallNextQuestion
    \/ CallSubmitAnswer
    \/ CallShuffle
    \/ CallRestartQuiz

SpecAnswered == InitSession /\ [][NextAnswered]_vars

----------------------------------------------------------------------------
(* The session operations on any Quiz value, the one without questions     *)
(* included (the fields of Quiz are public)                                *)

\* cap of the cursor of the model
MaxIndex == 3

AnyQuestions ==
    {[QuestionOfRow(row) EXCEPT !.user_answer = a] :
        row \in SessionRows, a \in {None} \cup {Some(x) : x \in UserAnswers}}

AnySessions ==
    {Quiz(qs, QuestionTypeOf(\E i \in DOMAIN qs : qs[i].options = <<>>,
                             \E i \in DOMAIN qs : qs[i].options # <<>>)) :
        qs \in UNION {[1..n -> AnyQuestions] : n \in 0..MaxQuestions}}

InitAnySession ==
    /\ file = NoFile
    /\ pc = "ready"
    /\ loaded = NotLoaded
    /\ state = "QuizInProgress"
    /\ quiz \in {Some(q) : q \in AnySessions}
    /\ start_time = None
    /\ paused_duration = 0
    /\ ret = NoCall
    /\ last_submitted = [i \in DOMAIN Unwrap(quiz).questions |->
                            Unwrap(quiz).questions[i].user_answer]
    /\ review_index = None
    /\ current_file = None
    /\ file_history = <<>>
    /\ show_settings = FALSE
    /\ allow_going_back = TRUE
    /\ shuffle_questions = FALSE
    /\ timer_paused = FALSE
    /\ current_answer = <<>>
    /\ now = 0
    /\ paused_total = 0

NextAnySession ==
    \/ CallCurrentQuestion
    \/ (IsSome(quiz) /\ Unwrap(quiz).current_index < MaxIndex /\ CallNextQuestion)
    \/ CallPreviousQuestion
    \/ CallSubmitAnswer

SpecAnySession == InitAnySession /\ [][NextAnySession]_vars

----------------------------------------------------------------------------
(* UserConfig::update_file_history *)

\* the cap of the file history
HistoryCap == 10

\* paths a caller can name
MaxPaths == 11
\* paths of the history that a caller has moved back to the front
MaxReAdds == 1

Path(k) == <<"quiz", k>>

Entry(filename, timestamp) == <<filename, timestamp>>
PathOf(entry) == entry[1]

\* UpdateFileHistory without the retain: a path already present stays
UpdateFileHistory_NoRetain(history, filename, timestamp) ==
    LET inserted == <<Entry(filename, timestamp)>> \o history
    IN  IF Len(inserted) > HistoryCap
        THEN SubSeq(inserted, 1, HistoryCap)
        ELSE inserted

\* UpdateFileHistory putting the new entry last, and dropping from the end
UpdateFileHistory_Append(history, filename, timestamp) ==
    LET retained == SelectSeq(history, LAMBDA e : PathOf(e) # filename)
        inserted == retained \o <<Entry(filename, timestamp)>>
    IN  IF Len(inserted) > HistoryCap
        THEN SubSeq(inserted, 1, HistoryCap)
        ELSE inserted

UpdateFileHistory(history, filename, timestamp) ==
    LET retained == SelectSeq(history, LAMBDA e : PathOf(e) # filename)
        inserted == <<Entry(filename, timestamp)>> \o retained
    IN  IF Len(inserted) > HistoryCap
        THEN SubSeq(inserted, 1, HistoryCap)
        ELSE inserted

PathsOf(history) == {PathOf(history[i]) : i \in DOMAIN history}

\* places of the history where a path stands before one first added later
OutOfOrder(history) ==
    {i \in 1..(Len(history) - 1) : PathOf(history[i])[2] < PathOf(history[i + 1])[2]}

\* The paths of the calls of the model: the next path that was never added,
\* and any path of the history while fewer than MaxReAdds places of it are
\* out of the order of first addition.
PathsToAdd(history) ==
    LET used == {k \in 1..MaxPaths : Path(k) \in PathsOf(history)}
        fresh == {k \in 1..MaxPaths : \A u \in used : u < k}
    IN  (IF Cardinality(OutOfOrder(history)) < MaxReAdds THEN PathsOf(history) ELSE {})
        \cup (IF fresh # {} THEN {Path(CHOOSE k \in fresh : \A j \in fresh : k <= j)} ELSE {})

CallUpdateFileHistory ==
    /\ \E filename \in PathsToAdd(file_history) :
        /\ file_history' = UpdateFileHistory(file_history, filename, now)
        /\ ret' = Call("update_file_history", filename)
    /\ UNCHANGED <<file, pc, loaded, state, quiz, start_time, paused_duration, last_submitted>>
    /\ UNCHANGED <<review_index, current_file, uiVars, clockVars>>

InitHistory == file = NoFile /\ InitApp

NextHistory == CallUpdateFileHistory

SpecHistory == InitHistory /\ [][NextHistory]_vars

----------------------------------------------------------------------------
(* Shuffles and restarts of a loaded session whose options can repeat *)

ShuffleRows ==
    SessionRows \cup {Row(<<Str("3"), Str("q"), Str("b"), Str("b"), Str("A")>>)}

ShuffleFiles ==
    {File(<<HeaderRow>> \o t) :
        t \in UNION {TablesOfLen(n, ShuffleRows) : n \in 1..MaxQuestions}}

InitShuffle == file \in ShuffleFiles /\ InitApp

NextShuffle ==
    \/ LoadQuiz
    \/ CallShuffle
    \/ CallRestartQuiz

SpecShuffle == InitShuffle /\ [][NextShuffle]_vars

----------------------------------------------------------------------------
(* The application: QuizApp::update, one click of the user per frame *)

\* The files the user can select: a quiz of two questions, one short answer
\* and one multiple choice, a quiz of one question, and a path that does not
\* load (the folder that "Change Folder" returns).
QuizFile ==
    File(<<HeaderRow,
           Row(<<Str("1"), Str("q"), <<" ", "A">>>>),
           Row(<<<<" ", "2">>, Str("q"), Str("b"), Str("A")>>)>>)

ShortQuizFile == File(<<HeaderRow, Row(<<Str("7"), Str("q"), Str("b"), Str("A")>>)>>)

DiskPaths == {Path(1), Path(2), Path(3)}

Disk(path) ==
    CASE path = Path(1) -> QuizFile
      [] path = Path(2) -> ShortQuizFile
      [] OTHER -> NoFile

\* the session the question screen shows
OnQuestionScreen ==
    /\ state = "QuizInProgress"
    /\ IsSome(quiz)
    /\ IsSome(CurrentQuestion(Unwrap(quiz)))

\* start_time.elapsed()
Elapsed == now - Unwrap(start_time)

\* Duration - Duration panics when the result would be negative
DurationSubOverflows(a, b) == a < b

\* show_question with a running timer computes start_time.elapsed() -
\* paused_duration before it shows anything else
TimerOverflows ==
    /\ IsSome(start_time)
    /\ ~timer_paused
    /\ DurationSubOverflows(Elapsed, paused_duration)

\* the question screen is shown and its widgets can be clicked
QuestionShown == OnQuestionScreen /\ ~TimerOverflows

\* the home icon, shown on every screen except Home
ClickHomeIcon ==
    /\ pc # "panicked"
    /\ state # "Home"
    /\ state' = "Home"
    /\ UNCHANGED <<file, pc, loaded, quiz, start_time, paused_duration, ret, last_submitted>>
    /\ UNCHANGED <<appVars, uiVars, clockVars>>

\* Home: the Start button
ClickStart ==
    /\ pc # "panicked"
    /\ state = "Home"
    /\ state' = "FileSelection"
    /\ UNCHANGED <<file, pc, loaded, quiz, start_time, paused_duration, ret, last_submitted>>
    /\ UNCHANGED <<appVars, uiVars, clockVars>>

\* Home: the Settings label opens the window, its close button closes it
ClickSettings ==
    /\ pc # "panicked"
    /\ state = "Home"
    /\ show_settings' = ~show_settings
    /\ UNCHANGED <<file, pc, loaded, state, quiz, start_time, paused_duration, ret, last_submitted>>
    /\ UNCHANGED <<appVars, allow_going_back, shuffle_questions, timer_paused, current_answer>>
    /\ UNCHANGED clockVars

\* the two checkboxes are on the settings window and on the summary screen
CheckboxesShown ==
    \/ state = "Home" /\ show_settings
    \/ state = "QuizSummary" /\ IsSome(quiz)

ToggleAllowGoingBack ==
    /\ pc # "panicked"
    /\ CheckboxesShown
    /\ allow_going_back' = ~allow_going_back
    /\ UNCHANGED <<file, pc, loaded, state, quiz, start_time, paused_duration, ret, last_submitted>>
    /\ UNCHANGED <<appVars, show_settings, shuffle_questions, timer_paused, current_answer>>
    /\ UNCHANGED clockVars

ToggleShuffleQuestions ==
    /\ pc # "panicked"
    /\ CheckboxesShown
    /\ shuffle_questions' = ~shuffle_questions
    /\ UNCHANGED <<file, pc, loaded, state, quiz, start_time, paused_duration, ret, last_submitted>>
    /\ UNCHANGED <<appVars, show_settings, allow_going_back, timer_paused, current_answer>>
    /\ UNCHANGED clockVars

\* SelectFile adding the path to the history before it knows the load result
SelectFile_HistoryAlways ==
    /\ pc # "panicked"
    /\ state = "FileSelection"
    /\ \E path \in DiskPaths :
        LET r == LoadFromCsv(Disk(path))
        IN  /\ current_file' = Some(path)
            /\ file' = Disk(path)
            /\ loaded' = r
            /\ file_history' = UpdateFileHistory(file_history, path, now)
            /\ IF r.ok
               THEN quiz' = r.quiz /\ state' = "QuizSummary"
               ELSE UNCHANGED <<quiz, state>>
    /\ UNCHANGED <<pc, start_time, paused_duration, ret, last_submitted>>
    /\ UNCHANGED <<review_index, uiVars, clockVars>>

\* FileSelection: a file is selected; load_quiz, then update_file_history
SelectFile ==
    /\ pc # "panicked"
    /\ state = "FileSelection"
    /\ \E path \in DiskPaths :
        LET r == LoadFromCsv(Disk(path))
        IN  /\ current_file' = Some(path)
            /\ file' = Disk(path)
            /\ loaded' = r
            /\ IF r.ok
               THEN /\ quiz' = r.quiz
                    /\ state' = "QuizSummary"
                    /\ file_history' = UpdateFileHistory(file_history, path, now)
               ELSE UNCHANGED <<quiz, state, file_history>>
    /\ UNCHANGED <<pc, start_time, paused_duration, ret, last_submitted>>
    /\ UNCHANGED <<review_index, uiVars, clockVars>>

\* QuizSummary: Begin Quiz
BeginQuiz ==
    /\ pc # "panicked"
    /\ state = "QuizSummary"
    /\ IsSome(quiz)
    /\ LET q == Unwrap(quiz)
       IN  IF shuffle_questions
           THEN \E p \in IndexPerms(Len(q.questions)) :
                \E orders \in OrdersFor(q, p) :
                    quiz' = Some(Shuffle(q, p, orders))
           ELSE UNCHANGED quiz
    /\ start_time' = Some(now)
    /\ paused_total' = 0
    /\ state' = "QuizInProgress"
    /\ UNCHANGED <<file, pc, loaded, paused_duration, ret, last_submitted, now>>
    /\ UNCHANGED <<appVars, uiVars>>

\* what the user can put in current_answer on the question screen: any text
\* for a short answer, one of the options for a multiple choice
AnswerInputs(question) ==
    IF question.options = <<>>
    THEN UserAnswers \cup {<<>>}
    ELSE Range(question.options)

TypeAnswer ==
    /\ pc # "panicked"
    /\ QuestionShown
    /\ \E text \in AnswerInputs(Unwrap(CurrentQuestion(Unwrap(quiz)))) :
        current_answer' = text
    /\ UNCHANGED <<file, pc, loaded, state, quiz, start_time, paused_duration, ret, last_submitted>>
    /\ UNCHANGED <<appVars, show_settings, allow_going_back, shuffle_questions, timer_paused>>
    /\ UNCHANGED clockVars

\* the time the question screen shows
ShownElapsed ==
    IF timer_paused
    THEN paused_duration
    ELSE Elapsed - paused_duration

\* QuizInProgress: the Pause / Resume button
ClickPause ==
    /\ pc # "panicked"
    /\ QuestionShown
    /\ IsSome(start_time)
    /\ timer_paused' = ~timer_paused
    /\ IF timer_paused'
       THEN paused_duration' = Elapsed - paused_duration
       ELSE UNCHANGED paused_duration
    /\ UNCHANGED <<file, pc, loaded, state, quiz, start_time, ret, last_submitted>>
    /\ UNCHANGED <<appVars, show_settings, allow_going_back, shuffle_questions, current_answer>>
    /\ UNCHANGED clockVars

\* the frame of a question screen whose timer subtraction panics
ShowQuestionPanics ==
    /\ pc # "panicked"
    /\ OnQuestionScreen
    /\ TimerOverflows
    /\ pc' = "panicked"
    /\ UNCHANGED <<file, loaded, state, quiz, start_time, paused_duration, ret, last_submitted>>
    /\ UNCHANGED <<appVars, uiVars, clockVars>>

\* ClickPrevious with the button shown whatever allow_going_back says
ClickPrevious_IgnoreOption ==
    /\ pc # "panicked"
    /\ QuestionShown
    /\ Unwrap(quiz).current_index > 0
    /\ current_answer' = <<>>
    /\ quiz' = Some(PreviousQuestion(Unwrap(quiz)).quiz)
    /\ UNCHANGED <<file, pc, loaded, state, start_time, paused_duration, ret, last_submitted>>
    /\ UNCHANGED <<appVars, show_settings, allow_going_back, shuffle_questions, timer_paused>>
    /\ UNCHANGED clockVars

\* QuizInProgress: the Previous button
ClickPrevious ==
    /\ pc # "panicked"
    /\ QuestionShown
    /\ Unwrap(quiz).current_index > 0
    /\ allow_going_back
    /\ current_answer' = <<>>
    /\ quiz' = Some(PreviousQuestion(Unwrap(quiz)).quiz)
    /\ UNCHANGED <<file, pc, loaded, state, start_time, paused_duration, ret, last_submitted>>
    /\ UNCHANGED <<appVars, show_settings, allow_going_back, shuffle_questions, timer_paused>>
    /\ UNCHANGED clockVars

\* ClickNext submitting whatever current_answer holds, the empty text too
ClickNext_SubmitEmpty ==
    /\ pc # "panicked"
    /\ QuestionShown
    /\ LET answered == SubmitAnswer(Unwrap(quiz), current_answer)
       IN  /\ current_answer' = <<>>
           /\ IF answered.current_index = LenMinusOne(answered)
              THEN state' = "QuizResults" /\ quiz' = Some(answered)
              ELSE state' = state /\ quiz' = Some(NextQuestion(answered).quiz)
    /\ UNCHANGED <<file, pc, loaded, start_time, paused_duration, ret, last_submitted>>
    /\ UNCHANGED <<appVars, show_settings, allow_going_back, shuffle_questions, timer_paused>>
    /\ UNCHANGED clockVars

\* ClickNext switching to the results one question early
ClickNext_FinishEarly ==
    /\ pc # "panicked"
    /\ QuestionShown
    /\ IF current_answer = <<>>
       THEN UNCHANGED <<state, quiz, current_answer>>
       ELSE LET answered == SubmitAnswer(Unwrap(quiz), current_answer)
            IN  /\ current_answer' = <<>>
                /\ IF answered.current_index + 1 >= LenMinusOne(answered)
                   THEN state' = "QuizResults" /\ quiz' = Some(answered)
                   ELSE state' = state /\ quiz' = Some(NextQuestion(answered).quiz)
    /\ UNCHANGED <<file, pc, loaded, start_time, paused_duration, ret, last_submitted>>
    /\ UNCHANGED <<appVars, show_settings, allow_going_back, shuffle_questions, timer_paused>>
    /\ UNCHANGED clockVars

\* QuizInProgress: the Next / Finish button
ClickNext ==
    /\ pc # "panicked"
    /\ QuestionShown
    /\ IF current_answer = <<>>
       THEN UNCHANGED <<state, quiz, current_answer>>
       ELSE LET answered == SubmitAnswer(Unwrap(quiz), current_answer)
            IN  /\ current_answer' = <<>>
                /\ IF answered.current_index = LenMinusOne(answered)
                   THEN state' = "QuizResults" /\ quiz' = Some(answered)
                   ELSE state' = state /\ quiz' = Some(NextQuestion(answered).quiz)
    /\ UNCHANGED <<file, pc, loaded, start_time, paused_duration, ret, last_submitted>>
    /\ UNCHANGED <<appVars, show_settings, allow_going_back, shuffle_questions, timer_paused>>
    /\ UNCHANGED clockVars

\* QuizResults: Restart Quiz and Restart with Shuffled Questions
ClickRestart ==
    /\ pc # "panicked"
    /\ state = "QuizResults"
    /\ \E shuffle \in BOOLEAN : RestartQuiz(shuffle)
    /\ UNCHANGED <<file, pc, loaded, ret, last_submitted>>
    /\ UNCHANGED <<appVars, uiVars, clockVars>>

\* QuizResults: Return to File Selection
ClickReturnToFileSelection ==
    /\ pc # "panicked"
    /\ state = "QuizResults"
    /\ IsSome(quiz)
    /\ state' = "FileSelection"
    /\ quiz' = None
    /\ current_file' = None
    /\ UNCHANGED <<file, pc, loaded, start_time, paused_duration, ret, last_submitted>>
    /\ UNCHANGED <<review_index, file_history, uiVars, clockVars>>

\* QuizResults: the button of an incorrect question
ClickReview ==
    /\ pc # "panicked"
    /\ state = "QuizResults"
    /\ IsSome(quiz)
    /\ \E index \in Range(GetResults(Unwrap(quiz))[3]) :
        review_index' = Some(index)
    /\ state' = "QuestionReview"
    /\ UNCHANGED <<file, pc, loaded, quiz, start_time, paused_duration, ret, last_submitted>>
    /\ UNCHANGED <<current_file, file_history, uiVars, clockVars>>

\* ClickBackToResults leading to the summary screen
ClickBackToResults_ToSummary ==
    /\ pc # "panicked"
    /\ state = "QuestionReview"
    /\ IsSome(quiz)
    /\ IsSome(review_index)
    /\ Unwrap(review_index) < Len(Unwrap(quiz).questions)
    /\ review_index' = None
    /\ state' = "QuizSummary"
    /\ UNCHANGED <<file, pc, loaded, quiz, start_time, paused_duration, ret, last_submitted>>
    /\ UNCHANGED <<current_file, file_history, uiVars, clockVars>>

\* QuestionReview: Back to Results
ClickBackToResults ==
    /\ pc # "panicked"
    /\ state = "QuestionReview"
    /\ IsSome(quiz)
    /\ IsSome(review_index)
    /\ Unwrap(review_index) < Len(Unwrap(quiz).questions)
    /\ review_index' = None
    /\ state' = "QuizResults"
    /\ UNCHANGED <<file, pc, loaded, quiz, start_time, paused_duration, ret, last_submitted>>
    /\ UNCHANGED <<current_file, file_history, uiVars, clockVars>>

\* QuizApp::new
Init ==
    /\ file = NoFile
    /\ pc = "ready"
    /\ loaded = NotLoaded
    /\ state = "Home"
    /\ quiz = None
    /\ InitFields

Next ==
    \/ ClickHomeIcon
    \/ ClickStart
    \/ ClickSettings
    \/ ToggleAllowGoingBack
    \/ ToggleShuffleQuestions
    \/ SelectFile
    \/ BeginQuiz
    \/ TypeAnswer
    \/ ClickPause
    \/ ClickPrevious
    \/ ClickNext
    \/ ClickRestart
    \/ ClickReturnToFileSelection
    \/ ClickReview
    \/ ClickBackToResults

Spec == Init /\ [][Next]_vars

----------------------------------------------------------------------------
(* The timer of the question screen, with the clock running *)

MaxTime == 5

\* one unit of time passes; paused_total counts the units that passed with
\* the timer paused since the quiz was begun
Tick ==
    /\ pc # "panicked"
    /\ now < MaxTime
    /\ now' = now + 1
    /\ paused_total' = IF IsSome(start_time) /\ timer_paused
                       THEN paused_total + 1
                       ELSE paused_total
    /\ UNCHANGED <<file, pc, loaded, state, quiz, start_time, paused_duration, ret, last_submitted>>
    /\ UNCHANGED <<appVars, uiVars>>

InitTimer == Init

NextTimer ==
    \/ Tick
    \/ ClickHomeIcon
    \/ ClickStart
    \/ SelectFile
    \/ BeginQuiz
    \/ ClickPause
    \/ ShowQuestionPanics

SpecTimer == InitTimer /\ [][NextTimer]_vars

----------------------------------------------------------------------------
(* A user who, once a quiz is in progress, only answers and clicks Next *)

\* the Next / Finish button clicked with an answer in the input
AnsweredNext == current_answer # <<>> /\ ClickNext

InitFinish == Init

NextFinish ==
    \/ ClickStart
    \/ SelectFile
    \/ ToggleShuffleQuestions
    \/ BeginQuiz
    \/ TypeAnswer
    \/ ClickNext
    \/ ClickReturnToFileSelection

\* the user goes on typing an answer and clicking Next / Finish
SpecFinish ==
    /\ InitFinish
    /\ [][NextFinish]_vars
    /\ WF_vars(TypeAnswer)
    /\ SF_vars(AnsweredNext)

----------------------------------------------------------------------------
(* What the specification says of a file, stated on the rows of the file   *)

\* the row is one the specification accepts as a question row
RowValid(row) ==
    /\ row.utf8
    /\ Len(row.fields) >= 3
    /\ IsSome(ParseU32(Trim(row.fields[1])))

ExpectedOptions(fields) ==
    IF Len(fields) > 3
    THEN <<Trim(fields[3])>> \o [j \in 1..(Len(fields) - 3) |-> Trim(fields[j + 3])]
    ELSE <<>>

ExpectedQuestion(row) ==
    [number |-> Unwrap(ParseU32(Trim(row.fields[1]))),
     text |-> Trim(row.fields[2]),
     correct_answer |-> Trim(row.fields[3]),
     options |-> ExpectedOptions(row.fields),
     user_answer |-> None]

AllRowsValid(f) == \A i \in DOMAIN f.rows : RowValid(f.rows[i])

\* p is the position (1-based) of the first row of f that is not valid
FirstInvalidRow(f, p) ==
    /\ p \in DOMAIN f.rows
    /\ ~RowValid(f.rows[p])
    /\ \A k \in 1..(p - 1) : RowValid(f.rows[k])

Loaded == pc = "ready"

\* C3: load makes one question of every row of the file, the first row
\* included: a file whose rows are all valid gives a session with one
\* question per row, in file order, current_index = 0 and shuffled = FALSE.
C3_EveryRowIsAQuestion ==
    (Loaded /\ file.exists /\ file.rows # <<>> /\ AllRowsValid(file)) =>
        /\ loaded.ok
        /\ quiz = loaded.quiz
        /\ LET q == Unwrap(loaded.quiz)
           IN  /\ Len(q.questions) = Len(file.rows)
               /\ \A i \in DOMAIN file.rows : q.questions[i] = ExpectedQuestion(file.rows[i])
               /\ q.current_index = 0
               /\ q.shuffled = FALSE

\* C4: when the first row of the file that is not valid has fewer than 3
\* fields, at any position p of the file (the first included), load fails with
\* MalformedRow naming p (1-based) and the field count, and gives no session.
C4_MalformedRowReported ==
    (Loaded /\ file.exists) =>
        \A p \in DOMAIN file.rows :
            (FirstInvalidRow(file, p) /\ file.rows[p].utf8 /\ Len(file.rows[p].fields) < 3) =>
                /\ loaded = LoadErr(LoadError("MalformedRow", p, Len(file.rows[p].fields)))
                /\ quiz = None

\* C5: load stops at the first invalid row: in a file of decodable rows whose
\* first invalid row is at position p, the error is the one of row p
\* (MalformedRow if it has fewer than 3 fields, InvalidQuestionNumber
\* otherwise), whatever rows follow, and no session is returned.
C5_FirstInvalidRowDecides ==
    (Loaded /\ file.exists /\ \A i \in DOMAIN file.rows : file.rows[i].utf8) =>
        \A p \in DOMAIN file.rows :
            FirstInvalidRow(file, p) =>
                /\ loaded = IF Len(file.rows[p].fields) < 3
                            THEN LoadErr(LoadError("MalformedRow", p, Len(file.rows[p].fields)))
                            ELSE LoadErr(LoadError("InvalidQuestionNumber", p, 0))
                /\ quiz = None

\* C6: load never returns a session without questions: a file without rows
\* fails with EmptyQuizFile, and every file with at least one row, all rows
\* valid, loads.
C6_NeverEmptySession ==
    Loaded =>
        /\ loaded.ok => Unwrap(loaded.quiz).questions # <<>>
        /\ (file.exists /\ file.rows = <<>>) =>
               loaded = LoadErr(LoadError("EmptyQuizFile", 0, 0))
        /\ (file.exists /\ file.rows # <<>> /\ AllRowsValid(file)) => loaded.ok

\* C7: every loaded question has empty options when its row has exactly 3
\* fields, and otherwise options = [correct_answer] followed by the fields
\* from the fourth on, in file order, duplicates kept; so options is empty or
\* starts with correct_answer.  (The questions of a loaded session come from
\* the last rows of the file, one per row.)
C7_OptionsFromRow ==
    (Loaded /\ loaded.ok) =>
        LET q == Unwrap(loaded.quiz)
            skipped == Len(file.rows) - Len(q.questions)
        IN  \A i \in DOMAIN q.questions :
                LET fields == file.rows[i + skipped].fields
                    question == q.questions[i]
                IN  /\ question.correct_answer = Trim(fields[3])
                    /\ Len(fields) = 3 => question.options = <<>>
                    /\ Len(fields) > 3 =>
                          /\ question.options = ExpectedOptions(fields)
                          /\ question.options[1] = question.correct_answer
                          /\ Len(question.options) = Len(fields) - 2
                    /\ \/ question.options = <<>>
                       \/ question.options[1] = question.correct_answer

\* a short-answer question and a question whose options repeat the correct
\* answer were loaded from one file
C7_Witness ==
    /\ Loaded /\ loaded.ok
    /\ \E i, j \in DOMAIN Unwrap(loaded.quiz).questions :
        /\ Unwrap(loaded.quiz).questions[i].options = <<>>
        /\ Len(Unwrap(loaded.quiz).questions[j].options) >= 2
        /\ Unwrap(loaded.quiz).questions[j].options[2]
             = Unwrap(loaded.quiz).questions[j].correct_answer

----------------------------------------------------------------------------
(* The session operations *)

TheQuiz == Unwrap(quiz)
TheQuizAfter == Unwrap(quiz')

\* C1: in every state a loaded session reaches by next_question,
\* previous_question, submit_answer, shuffle and restart,
\* 0 <= current_index < len(questions).
C1_IndexInRange ==
    HasSession =>
        /\ 0 <= TheQuiz.current_index
        /\ TheQuiz.current_index < Len(TheQuiz.questions)

\* next_question was refused at the last of several questions
C1_Witness ==
    /\ HasSession
    /\ ret = Call("next_question", FALSE)
    /\ Len(TheQuiz.questions) >= 2
    /\ TheQuiz.current_index = Len(TheQuiz.questions) - 1

C2_NextStep ==
    ret'.op = "next_question" =>
        IF TheQuiz.current_index < Len(TheQuiz.questions) - 1
        THEN /\ ret'.value = Some(TRUE)
             /\ TheQuizAfter = [TheQuiz EXCEPT !.current_index = TheQuiz.current_index + 1]
        ELSE /\ ret'.value = Some(FALSE)
             /\ quiz' = quiz

C2_PreviousStep ==
    ret'.op = "previous_question" =>
        IF TheQuiz.current_index > 0
        THEN /\ ret'.value = Some(TRUE)
             /\ TheQuizAfter = [TheQuiz EXCEPT !.current_index = TheQuiz.current_index - 1]
        ELSE /\ ret'.value = Some(FALSE)
             /\ quiz' = quiz

\* C2: next_question returns true and adds exactly 1 to current_index when
\* current_index < len - 1, and otherwise returns false and leaves the
\* session as it was; previous_question returns true and subtracts exactly 1
\* when current_index > 0, and otherwise returns false and leaves the session
\* as it was.  Neither wraps, and neither changes the questions, the
\* answers, question_type or shuffled.
C2_Navigation == [][C2_NextStep /\ C2_PreviousStep]_vars

\* previous_question was refused at index 0 of a session that holds an answer
C2_Witness ==
    /\ HasSession
    /\ ret = Call("previous_question", FALSE)
    /\ TheQuiz.current_index = 0
    /\ Len(TheQuiz.questions) >= 2
    /\ \E i \in DOMAIN TheQuiz.questions : IsSome(TheQuiz.questions[i].user_answer)

\* C8: question_type is ShortAnswer iff every question has empty options,
\* MultipleChoice iff every question has options, Mixed iff both kinds occur,
\* and it stays what load set it to under navigation, submit_answer, shuffle
\* and restart.
C8_Classification ==
    HasSession =>
        LET short == {i \in DOMAIN TheQuiz.questions : TheQuiz.questions[i].options = <<>>}
            multi == {i \in DOMAIN TheQuiz.questions : TheQuiz.questions[i].options # <<>>}
        IN  /\ TheQuiz.question_type = "ShortAnswer" <=> multi = {}
            /\ TheQuiz.question_type = "MultipleChoice" <=> short = {}
            /\ TheQuiz.question_type = "Mixed" <=> (short # {} /\ multi # {})
            /\ TheQuiz.question_type = Unwrap(loaded.quiz).question_type

\* a session of both kinds of question, restarted with a shuffle
C8_Witness ==
    /\ HasSession
    /\ ret = Call("restart_quiz", TRUE)
    /\ TheQuiz.shuffled
    /\ TheQuiz.question_type = "Mixed"

\* the comparison of get_results: both sides trimmed and lower-cased
SameAnswer(a, b) == ToLowercase(Trim(a)) = ToLowercase(Trim(b))

C9_ResultsStep ==
    ret'.op = "get_results" =>
        LET result == Unwrap(ret'.value)
            n == Len(TheQuiz.questions)
            answered == {i \in 0..(n - 1) : IsSome(TheQuiz.questions[i + 1].user_answer)}
            right == {i \in answered :
                        SameAnswer(Unwrap(TheQuiz.questions[i + 1].user_answer),
                                   TheQuiz.questions[i + 1].correct_answer)}
            incorrect == result[3]
        IN  /\ quiz' = quiz
            /\ result[1] = n
            /\ result[2] = Cardinality(right)
            /\ Range(incorrect) = answered \ right
            /\ \A j, k \in DOMAIN incorrect : j < k => incorrect[j] < incorrect[k]
            /\ result[2] + Len(incorrect) = Cardinality(answered)
            /\ Cardinality(answered) <= result[1]

\* C9: get_results returns total = len(questions), correct_count = the number
\* of questions whose answer is present and equals correct_answer after
\* trimming and lower-casing both, and incorrect_indices = the indices of the
\* questions whose answer is present and differs, strictly ascending;
\* unanswered questions are in neither tally; the session is not modified.
C9_GetResults == [][C9_ResultsStep]_vars

\* get_results counted an answer that differs from correct_answer in case and
\* surrounding whitespace as correct, a different answer as incorrect
C9_Witness ==
    /\ HasSession
    /\ ret = Call("get_results", <<2, 1, <<1>>>>)
    /\ TheQuiz.questions[1].user_answer = Some(<<" ", "a", " ">>)
    /\ TheQuiz.questions[1].correct_answer = Str("A")

C10_SubmitStep ==
    ret'.op = "submit_answer" =>
        LET at == TheQuiz.current_index + 1
        IN  TheQuizAfter =
              [TheQuiz EXCEPT !.questions[at].user_answer = ret'.value]

C10_LastSubmitted ==
    HasSession =>
        \A i \in DOMAIN TheQuiz.questions :
            TheQuiz.questions[i].user_answer = last_submitted[i]

\* C10: submit_answer(a) sets the user_answer of the question at
\* current_index to a, replacing an earlier answer, and changes nothing else
\* of the session; and each question's user_answer is always the last answer
\* submitted while the cursor was on it (none since the last restart: absent).
C10_SubmitAnswer == [][C10_SubmitStep]_vars /\ []C10_LastSubmitted

\* an answer was replaced by a later submission to the same question, while
\* another question keeps its own answer
C10_Witness ==
    /\ HasSession
    /\ ret = Call("submit_answer", Str("b"))
    /\ Len(TheQuiz.questions) >= 2
    /\ TheQuiz.current_index = 1
    /\ TheQuiz.questions[2].user_answer = Some(Str("b"))
    /\ TheQuiz.questions[1].user_answer = Some(<<" ", "a", " ">>)

----------------------------------------------------------------------------
(* Shuffle *)

Count(seq, x) == Cardinality({i \in DOMAIN seq : seq[i] = x})

\* the same elements, each as many times
SameMultiset(s, t) ==
    /\ Len(s) = Len(t)
    /\ \A x \in Range(s) \cup Range(t) : Count(s, x) = Count(t, x)

QuestionId(question) == <<question.number, question.text, question.correct_answer>>

\* C12: after any number of shuffles (and restarts) the questions are the
\* loaded ones in some order, each with the same multiset of options; a
\* multiple-choice question still has its correct_answer among its options
\* and a short-answer question still has none.
C12_ShuffleIsPermutation ==
    HasSession =>
        LET was == Unwrap(loaded.quiz).questions
            cur == TheQuiz.questions
        IN  /\ Len(cur) = Len(was)
            /\ \E p \in IndexPerms(Len(was)) :
                \A i \in DOMAIN cur :
                    /\ QuestionId(cur[i]) = QuestionId(was[p[i]])
                    /\ SameMultiset(cur[i].options, was[p[i]].options)
                    /\ was[p[i]].options # <<>> =>
                          cur[i].correct_answer \in Range(cur[i].options)
                    /\ was[p[i]].options = <<>> => cur[i].options = <<>>

\* a shuffle moved the first question away and put the correct answer of a
\* question with a repeated option last
C12_Witness ==
    /\ HasSession
    /\ ret = Call("shuffle", TRUE)
    /\ Len(TheQuiz.questions) = 2
    /\ QuestionId(TheQuiz.questions[1]) = QuestionId(Unwrap(loaded.quiz).questions[2])
    /\ QuestionId(TheQuiz.questions[1]) # QuestionId(Unwrap(loaded.quiz).questions[1])
    /\ \E i \in DOMAIN TheQuiz.questions :
          TheQuiz.questions[i].options = <<Str("A"), Str("b"), Str("b")>>

\* number, text, correct answer and the answer given
Attached(question) ==
    <<question.number, question.text, question.correct_answer, question.user_answer>>

C13_ShuffleStep ==
    ret'.op = "shuffle" =>
        /\ TheQuizAfter.shuffled
        /\ TheQuizAfter.current_index = TheQuiz.current_index
        /\ TheQuizAfter.question_type = TheQuiz.question_type
        /\ Len(TheQuizAfter.questions) = Len(TheQuiz.questions)
        /\ \E p \in IndexPerms(Len(TheQuiz.questions)) :
              \A i \in DOMAIN TheQuiz.questions :
                  Attached(TheQuizAfter.questions[i]) = Attached(TheQuiz.questions[p[i]])

C13_ShuffledStays ==
    (HasSession /\ TheQuiz.shuffled) => (IsSome(quiz') /\ TheQuizAfter.shuffled)

\* C13: shuffle sets shuffled = TRUE and leaves current_index and
\* question_type; it changes no user_answer, each answer moving with its
\* question (number, text); and once TRUE, shuffled stays TRUE for the session,
\* across restarts without shuffle too.
C13_ShuffleFrame == [][C13_ShuffleStep /\ C13_ShuffledStays]_vars

\* a shuffle moved the answered second question to the front, with its
\* answer, and left the cursor where it was
C13_Witness ==
    /\ HasSession
    /\ ret = Call("shuffle", TRUE)
    /\ Len(TheQuiz.questions) = 2
    /\ Unwrap(loaded.quiz).questions[1].number = 1
    /\ TheQuiz.questions[1].number = 2
    /\ TheQuiz.questions[1].user_answer = Some(Str("b"))
    /\ TheQuiz.questions[2].number = 1
    /\ TheQuiz.questions[2].user_answer = None
    /\ TheQuiz.current_index = 1

----------------------------------------------------------------------------
(* Session operations on a session without questions *)

----------------------------------------------------------------------------
(* The file history *)

\* C17: starting from an empty history, after any sequence of
\* update_file_history calls the history has at most 10 entries and no two
\* entries have the same path.
C17_HistoryCappedDistinct ==
    /\ Len(file_history) <= 10
    /\ \A i, j \in DOMAIN file_history :
          PathOf(file_history[i]) = PathOf(file_history[j]) => i = j

\* a full history that has lost its oldest path and had a path moved to the
\* front
C17_Witness ==
    /\ Len(file_history) = 10
    /\ Path(1) \notin PathsOf(file_history)
    /\ OutOfOrder(file_history) # {}
    /\ ret.op = "update_file_history"

C18_UpdateStep ==
    ret'.op = "update_file_history" =>
        LET p == Unwrap(ret'.value)
            old == file_history
            new == file_history'
            others == SelectSeq(old, LAMBDA e : PathOf(e) # p)
        IN  /\ new # <<>>
            /\ PathOf(new[1]) = p
            /\ Len(new) = IF Len(others) + 1 > 10 THEN 10 ELSE Len(others) + 1
            /\ \A i \in 2..Len(new) : new[i] = others[i - 1]

\* C18: update_file_history(p) puts p at position 0 and keeps the other
\* entries in their order; a p already present is moved, not added again; when
\* the cap of 10 is exceeded the entry dropped is the last one.
C18_MostRecentFirst == [][C18_UpdateStep]_vars

\* an eleventh path was added to a full history: it is first and the path that
\* was last is gone
C18_Witness ==
    /\ ret = Call("update_file_history", Path(11))
    /\ Len(file_history) = 10
    /\ PathOf(file_history[1]) = Path(11)
    /\ PathOf(file_history[2]) = Path(3)
    /\ PathOf(file_history[10]) = Path(2)

----------------------------------------------------------------------------
(* The screens *)

\* no question of the session has an answer and the cursor is on the first
Fresh(q) ==
    /\ q.current_index = 0
    /\ \A i \in DOMAIN q.questions : q.questions[i].user_answer = None

\* the questions and their options, in the order the session holds them
Order(q) == [i \in DOMAIN q.questions |-> <<q.questions[i].number, q.questions[i].options>>]

C11_RestartStep ==
    state = "QuizResults" /\ IsSome(quiz) =>
        /\ state' = "QuizSummary" => IsSome(quiz') /\ Fresh(Unwrap(quiz'))
        /\ IsSome(quiz') /\ Order(Unwrap(quiz')) # Order(Unwrap(quiz)) =>
              state' = "QuizSummary" /\ Fresh(Unwrap(quiz'))
        /\ state' # "QuizSummary" => quiz' = quiz \/ quiz' = None

\* C11: a restart from the Results screen, with or without shuffle, leaves
\* current_index = 0, no user_answer and the Summary screen, in one step: no
\* state shows a new question or option order together with an old answer.
C11_RestartResets == [][C11_RestartStep]_vars

\* the summary screen after a restart that shuffled: the questions are in
\* another order than the file's, no timer is running
C11_Witness ==
    /\ state = "QuizSummary"
    /\ IsSome(quiz)
    /\ Unwrap(quiz).shuffled
    /\ Len(Unwrap(quiz).questions) = 2
    /\ Unwrap(quiz).questions[1].number = 2
    /\ Fresh(Unwrap(quiz))
    /\ start_time = None
    /\ ~shuffle_questions

C14_OriginalStep ==
    state' # state =>
        /\ state = "QuizSummary" => state' = "QuizInProgress"
        /\ state = "QuizInProgress" => state' = "QuizResults"
        /\ state = "QuizResults" => state' \in {"QuestionReview", "QuizSummary", "FileSelection"}
        /\ state = "QuestionReview" => state' = "QuizResults"

\* C14 as stated: Summary's only successor is InProgress, InProgress's is
\* Results, Results' are Review, Summary and FileSelection, Review's is Results.
C14_Original == [][C14_OriginalStep]_vars

C14_AmendedStep ==
    state' # state /\ state' # "Home" =>
        /\ state = "QuizSummary" => state' = "QuizInProgress"
        /\ state = "QuizInProgress" => state' = "QuizResults"
        /\ state = "QuizResults" => state' \in {"QuestionReview", "QuizSummary", "FileSelection"}
        /\ state = "QuestionReview" => state' = "QuizResults"

\* C14: the successors of Summary, InProgress, Results and Review are the ones
\* stated, and Home, which the home icon enters from each of them.
C14_ScreenSuccessors == [][C14_AmendedStep]_vars

\* the review screen of a session that was restarted with shuffle and
\* finished again
C14_Witness ==
    /\ state = "QuestionReview"
    /\ IsSome(review_index)
    /\ IsSome(quiz)
    /\ Unwrap(quiz).shuffled
    /\ ~shuffle_questions

\* C15: in every state whose screen is FileSelection no session exists.
C15_NoSessionOnFileSelection == state = "FileSelection" => quiz = None

C20_EnterInProgress ==
    state # "QuizInProgress" /\ state' = "QuizInProgress" =>
        IsSome(quiz') /\ Fresh(Unwrap(quiz'))

\* C20: on the Summary screen the session has current_index = 0 and no
\* user_answer, after a load and after a restart; InProgress is entered with
\* current_index = 0 and no user_answer.
C20_SummaryIsFresh ==
    /\ [](state = "QuizSummary" => IsSome(quiz) /\ Fresh(Unwrap(quiz)))
    /\ [][C20_EnterInProgress]_vars

\* the summary screen of a quiz loaded after another quiz was left, through the
\* home icon, with text in the answer field
C20_Witness ==
    /\ state = "QuizSummary"
    /\ IsSome(quiz)
    /\ ~Unwrap(quiz).shuffled
    /\ current_answer # <<>>
    /\ Len(file_history) = 2

----------------------------------------------------------------------------
(* The timer *)

\* C19: the time shown on the question screen is the time since the quiz was
\* begun minus the total time the timer was paused, after any sequence of
\* pause and resume clicks.
C19_ShownElapsed ==
    pc # "panicked" /\ QuestionShown /\ IsSome(start_time) =>
        ShownElapsed = Elapsed - paused_total

----------------------------------------------------------------------------
(* Answering *)

\* the question at 0-based index i has an answer that is not the empty text
Answered(q, i) ==
    /\ IsSome(q.questions[i + 1].user_answer)
    /\ Unwrap(q.questions[i + 1].user_answer) # <<>>

\* C21: on the InProgress screen every question below current_index has a
\* non-empty user_answer; on the Results screen every question is answered
\* and correct_count + len(incorrect_indices) = total.
C21_AnsweredBelowCursor ==
    /\ state = "QuizInProgress" /\ IsSome(quiz) =>
          \A i \in 0..(Unwrap(quiz).current_index - 1) : Answered(Unwrap(quiz), i)
    /\ state = "QuizResults" /\ IsSome(quiz) =>
          LET q == Unwrap(quiz)
              r == GetResults(q)
          IN  /\ \A i \in 0..(Len(q.questions) - 1) : Answered(q, i)
              /\ r[1] = Len(q.questions)
              /\ r[2] + Len(r[3]) = r[1]

\* the second question is shown with going back switched off: the first
\* question has its answer and an answer is typed for the second
C21_Witness ==
    /\ state = "QuizInProgress"
    /\ IsSome(quiz)
    /\ Len(Unwrap(quiz).questions) = 2
    /\ Unwrap(quiz).current_index = 1
    /\ Answered(Unwrap(quiz), 0)
    /\ current_answer # <<>>
    /\ ~allow_going_back

\* C22: whenever the question screen is rendered with a running timer,
\* paused_duration <= the time elapsed since start_time, so the subtraction
\* start_time.elapsed() - paused_duration does not underflow.
C22_NoTimerUnderflow ==
    OnQuestionScreen /\ IsSome(start_time) /\ ~timer_paused =>
        paused_duration <= Elapsed

----------------------------------------------------------------------------
(* Selecting a file *)

\* a step of the FileSelection screen other than the home icon: a file was
\* selected and loaded' is the result of its load
C23_SelectStep ==
    state = "FileSelection" /\ state' # "Home" /\ IsSome(current_file') =>
        /\ ~loaded'.ok =>
              /\ state' = "FileSelection"
              /\ quiz' = quiz
              /\ file_history' = file_history
              /\ UNCHANGED <<start_time, paused_duration, review_index, uiVars>>
        /\ loaded'.ok =>
              /\ state' = "QuizSummary"
              /\ quiz' = loaded'.quiz
              /\ PathOf(file_history'[1]) = Unwrap(current_file')
        /\ file_history' # file_history => loaded'.ok

\* C23: when the file chosen on the FileSelection screen fails to load, the
\* screen stays FileSelection, the session held before is left as it was and
\* the file history is not updated; the history gains the path only when the
\* load succeeds.
C23_FailedLoadChangesNothing == [][C23_SelectStep]_vars

\* a load has failed on the FileSelection screen while a session and a
\* history of two files were held
C23_Witness ==
    /\ state = "FileSelection"
    /\ current_file = Some(Path(3))
    /\ ~loaded.ok
    /\ IsSome(quiz)
    /\ Len(file_history) = 2

----------------------------------------------------------------------------
(* Finishing *)

\* the clicks on Next / Finish still needed to reach the Results screen
Remaining(st, q) ==
    IF st = "QuizResults"
    THEN 0
    ELSE Len(q.questions) - q.current_index

\* a step of the InProgress screen that changes the session or the screen:
\* with only answers typed and Next clicked, a click on Next / Finish
C24_NextStep ==
    state = "QuizInProgress" /\ IsSome(quiz) /\ (quiz' # quiz \/ state' # state) =>
        LET q == Unwrap(quiz)
            i == q.current_index
            n == Len(q.questions)
        IN  /\ current_answer # <<>>
            /\ IsSome(quiz')
            /\ Unwrap(quiz').questions =
                  [q.questions EXCEPT ![i + 1].user_answer = Some(current_answer)]
            /\ IF i = n - 1
               THEN state' = "QuizResults" /\ Unwrap(quiz').current_index = i
               ELSE state' = "QuizInProgress" /\ Unwrap(quiz').current_index = i + 1
            /\ Remaining(state', Unwrap(quiz')) = Remaining(state, q) - 1

\* C24: while the user only clicks Next / Finish with a non-empty answer,
\* each click submits the answer; at the last index it switches to Results
\* without moving the cursor, earlier it advances the cursor by one, so the
\* n - i clicks that remain go down by one each time and Results is reached.
C24_QuizCanBeFinished ==
    /\ [][C24_NextStep]_vars
    /\ (state = "QuizInProgress") ~> (state = "QuizResults")

\* the Results screen of the two questions, reached from index 0 with two
\* clicks: the cursor is still on the last question
C24_Witness ==
    /\ state = "QuizResults"
    /\ IsSome(quiz)
    /\ Len(Unwrap(quiz).questions) = 2
    /\ Unwrap(quiz).current_index = 1
    /\ Answered(Unwrap(quiz), 0)
    /\ Answered(Unwrap(quiz), 1)
    /\ current_answer = <<>>

----------------------------------------------------------------------------
(* Going back *)

C25_InProgressStep ==
    state = "QuizInProgress" /\ state' = "QuizInProgress" /\ IsSome(quiz) =>
        /\ allow_going_back' = allow_going_back
        /\ ~allow_going_back =>
              /\ IsSome(quiz')
              /\ Unwrap(quiz').current_index >= Unwrap(quiz).current_index

\* C25: with 'Allow going back to previous questions' off, current_index
\* never decreases while the screen is InProgress; the Previous button cannot
\* be clicked while current_index = 0; the option does not change while the
\* screen is InProgress.
C25_NoGoingBack ==
    /\ [][C25_InProgressStep]_vars
    /\ [](state = "QuizInProgress" /\ IsSome(quiz) /\ Unwrap(quiz).current_index = 0
             => ~ENABLED ClickPrevious)

\* the second question of a shuffled quiz is shown with the option off: the
\* Previous button is not there
C25_Witness ==
    /\ state = "QuizInProgress"
    /\ IsSome(quiz)
    /\ Unwrap(quiz).shuffled
    /\ Unwrap(quiz).current_index = 1
    /\ ~allow_going_back
    /\ ~ENABLED ClickPrevious

====
